---------------------------- MODULE Spec2Model ----------------------------
(***************************************************************************)
(* format_multiple_errors: formatting of a central value together with    *)
(* several symmetric or asymmetric uncertainties                           *)
(* (src/format_multiple_errors/formatter.py).                              *)
(*                                                                         *)
(* One call of format_multiple_errors is a run through the positions       *)
(* "called" .. "returned" (or "raised"); every helper of formatter.py is   *)
(* an operator and every stage of the call an action (Spec).  The helpers  *)
(* called on their own (HelperSpec) and the functions of pandas.py         *)
(* (PandasSpec) are one action each: `call` holds the function and its     *)
(* arguments, `output` what it returned or raised.                         *)
(*                                                                         *)
(* Where an operator uses the result of a call several times it names it   *)
(* by CHOOSE x \in {result} : TRUE, which has the result computed once.    *)
(*                                                                         *)
(* Numbers.  A Python number is modelled as a decimal                      *)
(* [m |-> mantissa, e |-> exponent, below |-> FALSE] standing for          *)
(* m * 10^e, kept canonical (m = 0 with e = 0, or m not divisible by 10);  *)
(* with below |-> TRUE it stands for the float next to m * 10^e towards    *)
(* zero, such as 999.9999999999999 next to 1000.  round() and the          *)
(* fixed-point format round half to even, as CPython does on the value it  *)
(* holds; the product error * 10**decimal_places of such a float is the    *)
(* float of the decimal product (Times10: 0.35 * 10 == 3.5).               *)
(* Arithmetic is exact otherwise: the binary representation error          *)
(* of a decimal fraction is not modelled: the input sets below hold        *)
(* numbers whose roundings come out the same in CPython.                   *)
(*                                                                         *)
(* Containers.  A value of a nested structure is a node                    *)
(* [type |-> "float" | "str" | "tuple" | "list", items |-> <<...>>]: a     *)
(* leaf holds its number or string as the one item, a container holds its  *)
(* nodes.                                                                  *)
(***************************************************************************)
EXTENDS Integers, Sequences, FiniteSets, TLC

VARIABLES
    pc,                 \* position of the call: idle, called, ..., returned, raised
    args,               \* the arguments of the call in progress
    normalised_value,   \* formatter.py:60,65
    normalised_errors,  \* formatter.py:60,65
    exponent,           \* formatter.py:63,65
    length_value,       \* formatter.py:69
    first_digit_index,  \* formatter.py:72
    decimal_places,     \* formatter.py:72
    formatted_numbers,  \* formatter.py:77,81
    result,             \* the returned string
    raised,             \* the exception that ended the call, "" if none
    call,               \* a direct call of a helper or of a function of pandas.py
    output              \* what that call returned or raised

\* the locals of format_multiple_errors
formatter_vars ==
    <<pc, args, normalised_value, normalised_errors, exponent, length_value,
      first_digit_index, decimal_places, formatted_numbers, result, raised>>

vars == <<formatter_vars, call, output>>

----------------------------------------------------------------------------
(* Bounds of the model *)

\* the longest list of explicit errors passed to one call
MaxErrors == 2

\* significant_figures ranges over 1 .. MaxSigFigs
MaxSigFigs == 3

----------------------------------------------------------------------------
(* Exact decimal arithmetic standing for Python's numbers *)

Abs(i) == IF i < 0 THEN -i ELSE i

RECURSIVE Pow10(_)
Pow10(n) == IF n <= 0 THEN 1 ELSE 10 * Pow10(n - 1)

RECURSIVE NumDigits(_)
NumDigits(n) == IF n < 10 THEN 1 ELSE 1 + NumDigits(n \div 10)

RECURSIVE Num(_, _)
Num(m, e) ==
    IF m = 0 THEN [m |-> 0, e |-> 0, below |-> FALSE]
    ELSE IF m % 10 = 0 THEN Num(m \div 10, e + 1)
    ELSE [m |-> m, e |-> e, below |-> FALSE]

\* the float next to the nonzero x towards zero
Below(x) == [x EXCEPT !.below = TRUE]

Zero == Num(0, 0)

IsZero(x) == x.m = 0

Neg(x) == [x EXCEPT !.m = -x.m]

AbsNum(x) == [x EXCEPT !.m = Abs(x.m)]

\* math.floor(math.log10(|x|)) of a nonzero x: the logarithm of the float
\* next below 10^k is the float k
Magnitude(x) == NumDigits(Abs(x.m)) - 1 + x.e

\* |a| < |b|
LessAbs(a, b) ==
    IF IsZero(b) THEN FALSE
    ELSE IF IsZero(a) THEN TRUE
    ELSE IF Magnitude(a) # Magnitude(b) THEN Magnitude(a) < Magnitude(b)
    ELSE IF Abs(a.m) = Abs(b.m) /\ a.e = b.e THEN a.below /\ ~b.below
    ELSE LET lo == IF a.e < b.e THEN a.e ELSE b.e
         IN  Abs(a.m) * Pow10(a.e - lo) < Abs(b.m) * Pow10(b.e - lo)

\* a < b
Less(a, b) ==
    IF a.m < 0 /\ b.m >= 0 THEN TRUE
    ELSE IF a.m >= 0 /\ b.m < 0 THEN FALSE
    ELSE IF a.m < 0 THEN LessAbs(b, a)
    ELSE LessAbs(a, b)

\* x / 10**k and x * 10**k
DivPow10(x, k) == [Num(x.m, x.e - k) EXCEPT !.below = x.below]

MulPow10(x, k) == [Num(x.m, x.e + k) EXCEPT !.below = x.below]

\* the float x * 10**k: the product is rounded to a float again, and that of
\* the float next below m * 10^e with a power of ten above 1 is the float
\* m * 10^(e + k) when there is one (0.35 * 10 == 3.5, 0.35 * 100 == 35.0)
Times10(x, k) == IF k > 0 THEN Num(x.m, x.e + k) ELSE MulPow10(x, k)

\* the integer nearest to n / 10^d (d >= 1, n >= 0), halves going to the even
\* one; what is just below a half goes down
RoundDiv(n, d, below) ==
    IF d > NumDigits(n) THEN 0
    ELSE LET p == Pow10(d)
             q == n \div p
             r == n % p
         IN  IF 2 * r > p THEN q + 1
             ELSE IF 2 * r < p \/ below THEN q
             ELSE IF q % 2 = 0 THEN q ELSE q + 1

\* round(x, ndigits), for ndigits short of the 16th significant digit of x:
\* the float next to m * 10^e rounds to m * 10^e
Round(x, ndigits) ==
    LET d == -x.e - ndigits
    IN  IF d <= 0 THEN [x EXCEPT !.below = FALSE]
        ELSE LET q == RoundDiv(Abs(x.m), d, x.below)
             IN  Num(IF x.m < 0 THEN -q ELSE q, -ndigits)

----------------------------------------------------------------------------
(* Conversions of numbers to strings *)

RECURSIVE Zeros(_)
Zeros(n) == IF n <= 0 THEN "" ELSE "0" \o Zeros(n - 1)

\* the decimal digits of n >= 0, left-padded with zeros to width characters
RECURSIVE Digits(_, _)
Digits(n, width) ==
    IF width <= 0 THEN "" ELSE Digits(n \div 10, width - 1) \o ToString(n % 10)

\* str(int(x)) of an integer-valued x
IntStr(x) ==
    IF IsZero(x) THEN "0"
    ELSE (IF x.m < 0 THEN "-" ELSE "") \o ToString(Abs(x.m)) \o Zeros(x.e)

\* int(x): truncation towards zero, as a number
Trunc(x) ==
    IF x.e >= 0 THEN x
    ELSE IF -x.e > NumDigits(Abs(x.m)) THEN Zero
    ELSE LET q == Abs(x.m) \div Pow10(-x.e)
         IN  Num(IF x.m < 0 THEN -q ELSE q, 0)

\* f"{x:.{precision}f}" for precision >= 0: the sign is that of x even when
\* every digit shown is zero
FixedFormat(x, precision) ==
    LET r     == Round(AbsNum(x), precision)
        whole == Trunc(r)
        nfrac == IF r.e < 0 THEN -r.e ELSE 0
        frac  == Digits(r.m, nfrac)
    IN  (IF x.m < 0 THEN "-" ELSE "")
        \o IntStr(whole)
        \o (IF precision > 0
            THEN "." \o frac \o Zeros(precision - nfrac)
            ELSE "")

----------------------------------------------------------------------------
(* Python values: numbers with or without a built-in uncertainty, nested   *)
(* lists and tuples                                                        *)

\* a plain number, an uncertainties.UFloat, a pyerrors.Obs (typing.py:11)
Float(x) == [type |-> "float", number |-> x, uncertainty |-> Zero]

UFloat(n, s) == [type |-> "UFloat", number |-> n, uncertainty |-> s]

Obs(v, dv) == [type |-> "Obs", number |-> v, uncertainty |-> dv]

hasattr(value, name) ==
    CASE value.type = "UFloat" -> name \in {"nominal_value", "std_dev"}
      [] value.type = "Obs"    -> name \in {"value", "dvalue"}
      [] OTHER                 -> FALSE

\* leaves and containers of a nested structure
Leaf(x) == [type |-> "float", items |-> <<x>>]

Str(s) == [type |-> "str", items |-> <<s>>]

Tuple(items) == [type |-> "tuple", items |-> items]

List(items) == [type |-> "list", items |-> items]

IsContainer(datum) == datum.type \in {"list", "tuple"}

\* the number or string a leaf holds
Item(leaf) == leaf.items[1]

\* an asymmetric error (upper, lower)
Pair(upper, lower) == Tuple(<<Leaf(upper), Leaf(lower)>>)

----------------------------------------------------------------------------
(* The helpers of formatter.py *)

\* the exceptions a call can end with
PyerrorsError == "ValueError: pyerrors will not give an error before calling .gamma_method()"

LengthControlError == "ValueError: not a value option for length_control"

EmptyMaxError == "ValueError: max() arg is an empty sequence"

FormatSpecError == "ValueError: Invalid format specifier"

\* min(numbers) and max(numbers) of a non-empty sequence
RECURSIVE Min(_)
Min(numbers) ==
    IF Len(numbers) = 1 THEN numbers[1]
    ELSE LET rest == Min(Tail(numbers))
         IN  IF Less(rest, numbers[1]) THEN rest ELSE numbers[1]

RECURSIVE Max(_)
Max(numbers) ==
    IF Len(numbers) = 1 THEN numbers[1]
    ELSE LET rest == Max(Tail(numbers))
         IN  IF Less(numbers[1], rest) THEN rest ELSE numbers[1]

\* "".join(elements)
RECURSIVE Join(_)
Join(elements) ==
    IF elements = <<>> THEN "" ELSE Head(elements) \o Join(Tail(elements))

\* a variant of _normalize_integrated_errors that takes a zero dvalue as it is
_normalize_integrated_errors_unchecked(value, errors) ==
    IF hasattr(value, "nominal_value") /\ hasattr(value, "std_dev")
    THEN [raised |-> "",
          value  |-> value.number,
          errors |-> List(<<Leaf(value.uncertainty)>> \o errors.items)]
    ELSE IF hasattr(value, "value") /\ hasattr(value, "dvalue")
    THEN [raised |-> "",
          value  |-> value.number,
          errors |-> List(<<Leaf(value.uncertainty)>> \o errors.items)]
    ELSE [raised |-> "", value |-> value.number, errors |-> errors]

\* a variant of _normalize_integrated_errors that puts the built-in
\* uncertainty after the explicit errors
_normalize_integrated_errors_appended(value, errors) ==
    IF hasattr(value, "nominal_value") /\ hasattr(value, "std_dev")
    THEN [raised |-> "",
          value  |-> value.number,
          errors |-> List(errors.items \o <<Leaf(value.uncertainty)>>)]
    ELSE IF hasattr(value, "value") /\ hasattr(value, "dvalue")
    THEN IF IsZero(value.uncertainty)
         THEN [raised |-> PyerrorsError, value |-> Zero, errors |-> List(<<>>)]
         ELSE [raised |-> "",
               value  |-> value.number,
               errors |-> List(errors.items \o <<Leaf(value.uncertainty)>>)]
    ELSE [raised |-> "", value |-> value.number, errors |-> errors]

_normalize_integrated_errors(value, errors) ==
    IF hasattr(value, "nominal_value") /\ hasattr(value, "std_dev")
    THEN [raised |-> "",
          value  |-> value.number,
          errors |-> List(<<Leaf(value.uncertainty)>> \o errors.items)]
    ELSE IF hasattr(value, "value") /\ hasattr(value, "dvalue")
    THEN IF IsZero(value.uncertainty)
         THEN [raised |-> PyerrorsError, value |-> Zero, errors |-> List(<<>>)]
         ELSE [raised |-> "",
               value  |-> value.number,
               errors |-> List(<<Leaf(value.uncertainty)>> \o errors.items)]
    ELSE [raised |-> "", value |-> value.number, errors |-> errors]

_first_digit(value) == IF IsZero(value) THEN 0 ELSE Magnitude(value)

\* the numbers one error contributes: its components when it can be
\* iterated, itself when iterating it raises TypeError
Components(error) ==
    IF IsContainer(error)
    THEN [i \in DOMAIN error.items |-> Item(error.items[i])]
    ELSE <<Item(error)>>

RECURSIVE FlattenFrom(_, _, _)
FlattenFrom(items, i, exclude) ==
    IF i > Len(items) THEN <<>>
    ELSE SelectSeq(Components(items[i]), LAMBDA value : value \notin exclude)
         \o FlattenFrom(items, i + 1, exclude)

_flatten_errors(errors, exclude) == FlattenFrom(errors.items, 1, exclude)

\* a variant of _get_smallest that excludes nothing
_get_smallest_including_zero(errors) ==
    LET flat_errors == _flatten_errors(errors, {})
    IN  IF flat_errors = <<>> THEN <<>> ELSE <<Min(flat_errors)>>

\* <<>> stands for None
_get_smallest(errors) ==
    LET flat_errors == _flatten_errors(errors, {Zero})
    IN  IF flat_errors = <<>> THEN <<>> ELSE <<Min(flat_errors)>>

\* a variant of _get_length_value that takes any other policy as "central"
_get_length_value_lenient(value, errors, length_control) ==
    IF length_control = "smallest"
    THEN LET length == _get_smallest(errors)
         IN  IF length = <<>> THEN [raised |-> "", value |-> value]
             ELSE [raised |-> "", value |-> length[1]]
    ELSE [raised |-> "", value |-> value]

_get_length_value(value, errors, length_control) ==
    IF length_control = "central" THEN [raised |-> "", value |-> value]
    ELSE IF length_control = "smallest"
    THEN LET length == _get_smallest(errors)
         IN  IF length = <<>> THEN [raised |-> "", value |-> value]
             ELSE [raised |-> "", value |-> length[1]]
    ELSE [raised |-> LengthControlError, value |-> Zero]

\* a variant of RoundingPass that hands the next turn the value as it came
RoundingPass_unrounded(length_value_, significant_figures) ==
    LET first_digit_index_ == _first_digit(length_value_)
        decimal_places_    == significant_figures - first_digit_index_ - 1
    IN  [first_digit_index |-> first_digit_index_,
         decimal_places    |-> decimal_places_,
         length_value      |-> length_value_]

\* one turn of the loop of _get_rounding_indices
RoundingPass(length_value_, significant_figures) ==
    LET first_digit_index_ == _first_digit(length_value_)
        decimal_places_    == significant_figures - first_digit_index_ - 1
    IN  [first_digit_index |-> first_digit_index_,
         decimal_places    |-> decimal_places_,
         length_value      |-> Round(length_value_, decimal_places_)]

\* a variant of _get_rounding_indices that makes one pass
_get_rounding_indices_one_pass(length_value_, significant_figures) ==
    LET first == RoundingPass(length_value_, significant_figures)
    IN  <<first.first_digit_index, first.decimal_places>>

_get_rounding_indices(length_value_, significant_figures) ==
    LET first  == RoundingPass(length_value_, significant_figures)
        second == RoundingPass(first.length_value, significant_figures)
    IN  <<second.first_digit_index, second.decimal_places>>

_decimals_required(first_digit_index_, significant_figures, exponential) ==
    first_digit_index_ + 1 < significant_figures \/ exponential

\* whether f"{x:.0{decimal_places}f}" is a format Python accepts: ".0-1f" is not
ValidFormatSpec(decimal_places_) == decimal_places_ >= 0

_abbreviated_single_error(error, decimal_places_) ==
    IF ~Less(error, Num(1, 0))
    THEN FixedFormat(error, decimal_places_)
    ELSE IntStr(Trunc(Round(Times10(error, decimal_places_), 0)))

\* a variant of _unabbreviated_single_error without the case of an error
\* that rounds to zero
_unabbreviated_single_error_plain(error, decimal_places_) ==
    FixedFormat(Round(error, decimal_places_), decimal_places_)

_unabbreviated_single_error(error, decimal_places_) ==
    LET rounded_error == Round(error, decimal_places_)
    IN  IF IsZero(rounded_error)
        THEN IF decimal_places_ > 0 THEN "0.0" ELSE "0"
        ELSE FixedFormat(rounded_error, decimal_places_)

\* the functions mapped over structures, each with the values it closes
\* over: lambda error: error / 10**exponent (formatter.py:149),
\* lambda error: formatters[abbreviate](error, decimal_places)
\* (formatter.py:276), lambda v: str(int(round(v, decimal_places)))
\* (formatter.py:82)
DivideLambda(exponent_) ==
    [lambda |-> "divide", exponent |-> exponent_, decimal_places |-> 0,
     abbreviate |-> FALSE]

FormatLambda(abbreviate, decimal_places_) ==
    [lambda |-> "format", exponent |-> 0, decimal_places |-> decimal_places_,
     abbreviate |-> abbreviate]

IntegerLambda(decimal_places_) ==
    [lambda |-> "integer", exponent |-> 0, decimal_places |-> decimal_places_,
     abbreviate |-> FALSE]

\* func(datum)
Apply(func, datum) ==
    CASE func.lambda = "divide" ->
           Leaf(DivPow10(datum, func.exponent))
      [] func.lambda = "format" ->
           Str(IF func.abbreviate
               THEN _abbreviated_single_error(datum, func.decimal_places)
               ELSE _unabbreviated_single_error(datum, func.decimal_places))
      [] func.lambda = "integer" ->
           Str(IntStr(Trunc(Round(datum, func.decimal_places))))

RECURSIVE _map_recursive(_, _)
_map_recursive(func, data) ==
    [type  |-> data.type,
     items |-> [i \in DOMAIN data.items |->
                  LET datum == data.items[i]
                  IN  IF datum.type = "list" THEN _map_recursive(func, datum)
                      ELSE IF datum.type = "tuple"
                      THEN List(_map_recursive(func, datum).items)
                      ELSE Apply(func, Item(datum))]]

\* a variant of _normalize that takes the exponent of a zero central value
\* from the smallest error
_normalize_by_smallest(value, errors) ==
    IF IsZero(value) /\ _flatten_errors(errors, {}) = <<>>
    THEN [raised |-> EmptyMaxError, value |-> Zero, errors |-> List(<<>>),
          exponent |-> 0]
    ELSE LET exp == IF IsZero(value)
                    THEN _first_digit(Min(_flatten_errors(errors, {})))
                    ELSE _first_digit(value)
         IN  [raised   |-> "",
              value    |-> DivPow10(value, exp),
              errors   |-> _map_recursive(DivideLambda(exp), errors),
              exponent |-> exp]

_normalize(value, errors) ==
    IF IsZero(value) /\ _flatten_errors(errors, {}) = <<>>
    THEN [raised |-> EmptyMaxError, value |-> Zero, errors |-> List(<<>>),
          exponent |-> 0]
    ELSE LET exp == IF IsZero(value)
                    THEN _first_digit(Max(_flatten_errors(errors, {})))
                    ELSE _first_digit(value)
         IN  [raised   |-> "",
              value    |-> DivPow10(value, exp),
              errors   |-> _map_recursive(DivideLambda(exp), errors),
              exponent |-> exp]

\* a variant of _format_errors_only that keeps one decimal place more for the
\* errors than the central value gets
_format_errors_only_one_more_place(errors, decimal_places_, abbreviate) ==
    _map_recursive(FormatLambda(abbreviate, decimal_places_ + 1), errors)

_format_errors_only(errors, decimal_places_, abbreviate) ==
    _map_recursive(FormatLambda(abbreviate, decimal_places_), errors)

\* a variant of FormatIntegers that rounds to the units
FormatIntegers_units(value, errors, decimal_places_) ==
    _map_recursive(IntegerLambda(0), List(<<Leaf(value)>> \o errors.items))

\* formatter.py:81-84, the branch without decimals
FormatIntegers(value, errors, decimal_places_) ==
    _map_recursive(IntegerLambda(decimal_places_),
                   List(<<Leaf(value)>> \o errors.items))

\* a variant of ApplyFormatter that takes the pair as (lower, upper)
ApplyFormatter_swapped(abbreviate, latex, error) ==
    LET single == error.type = "str"
        e  == Item(error)
        e0 == Item(error.items[2])
        e1 == Item(error.items[1])
    IN  CASE  abbreviate /\  latex /\  single -> "(" \o e \o ")"
          []  abbreviate /\  latex /\ ~single -> "({}^{" \o e0 \o "}_{" \o e1 \o "})"
          []  abbreviate /\ ~latex /\  single -> "(" \o e \o ")"
          []  abbreviate /\ ~latex /\ ~single -> "(+" \o e0 \o "/-" \o e1 \o ")"
          [] ~abbreviate /\  latex /\  single -> " \\pm " \o e
          [] ~abbreviate /\  latex /\ ~single -> " {}^{+" \o e0 \o "}_{-" \o e1 \o "}"
          [] ~abbreviate /\ ~latex /\  single -> " ± " \o e
          [] ~abbreviate /\ ~latex /\ ~single -> " (+" \o e0 \o " / -" \o e1 \o ")"

\* formatters[abbreviate, latex, single].format(error=error)
ApplyFormatter(abbreviate, latex, error) ==
    LET single == error.type = "str"
        e  == Item(error)
        e0 == Item(error.items[1])
        e1 == Item(error.items[2])
    IN  CASE  abbreviate /\  latex /\  single -> "(" \o e \o ")"
          []  abbreviate /\  latex /\ ~single -> "({}^{" \o e0 \o "}_{" \o e1 \o "})"
          []  abbreviate /\ ~latex /\  single -> "(" \o e \o ")"
          []  abbreviate /\ ~latex /\ ~single -> "(+" \o e0 \o "/-" \o e1 \o ")"
          [] ~abbreviate /\  latex /\  single -> " \\pm " \o e
          [] ~abbreviate /\  latex /\ ~single -> " {}^{+" \o e0 \o "}_{-" \o e1 \o "}"
          [] ~abbreviate /\ ~latex /\  single -> " ± " \o e
          [] ~abbreviate /\ ~latex /\ ~single -> " (+" \o e0 \o " / -" \o e1 \o ")"

\* a variant of _join_numbers that groups value and errors whenever there is
\* an exponent, abbreviated or not
_join_numbers_always_grouped(formatted_numbers_, abbreviate, latex, exponent_) ==
    LET numbers  == formatted_numbers_.items
        elements == [i \in DOMAIN numbers |->
                       IF i = 1 THEN Item(numbers[1])
                       ELSE ApplyFormatter(abbreviate, latex, numbers[i])]
        grouped  == IF exponent_ # 0
                    THEN <<"(">> \o elements \o <<")">>
                    ELSE elements
        scaled   == IF exponent_ = 0 THEN grouped
                    ELSE IF latex
                    THEN grouped \o <<" \\times 10^{" \o ToString(exponent_) \o "}">>
                    ELSE grouped \o <<"e" \o ToString(exponent_)>>
    IN  Join(scaled)

_join_numbers(formatted_numbers_, abbreviate, latex, exponent_) ==
    LET numbers  == formatted_numbers_.items
        elements == [i \in DOMAIN numbers |->
                       IF i = 1 THEN Item(numbers[1])
                       ELSE ApplyFormatter(abbreviate, latex, numbers[i])]
        grouped  == IF exponent_ # 0 /\ ~abbreviate
                    THEN <<"(">> \o elements \o <<")">>
                    ELSE elements
        scaled   == IF exponent_ = 0 THEN grouped
                    ELSE IF latex
                    THEN grouped \o <<" \\times 10^{" \o ToString(exponent_) \o "}">>
                    ELSE grouped \o <<"e" \o ToString(exponent_)>>
    IN  Join(scaled)

\* formatter.py:76-84: the rendered central value and errors, or the error
\* of a format specification Python rejects
FormattedNumbers(value, errors, first_digit_index_, decimal_places_, significant_figures, abbreviate, exponential) ==
    IF _decimals_required(first_digit_index_, significant_figures, exponential)
    THEN IF ~ValidFormatSpec(decimal_places_)
         THEN [raised |-> FormatSpecError, value |-> List(<<>>)]
         ELSE [raised |-> "",
               value  |-> List(<<Str(FixedFormat(value, decimal_places_))>>
                               \o _format_errors_only(errors, decimal_places_,
                                                      abbreviate).items)]
    ELSE [raised |-> "",
          value  |-> FormatIntegers(value, errors, decimal_places_)]

\* format_multiple_errors from one stage on, given what the stages before
\* it returned; the result of a stage is named by a CHOOSE from the set of
\* that one result, which has it computed once

\* formatter.py:86-88
FormatJoined(normalized, formatted, abbreviate, latex) ==
    IF formatted.raised # "" THEN [raised |-> formatted.raised, value |-> ""]
    ELSE [raised |-> "",
          value  |-> _join_numbers(formatted.value, abbreviate, latex,
                                   normalized.exponent)]

\* formatter.py:76-88
FormatWithIndices(normalized, indices, significant_figures, abbreviate, exponential, latex) ==
    CHOOSE returned \in
        { FormatJoined(normalized, formatted, abbreviate, latex) :
            formatted \in { FormattedNumbers(normalized.value, normalized.errors,
                                             indices[1], indices[2],
                                             significant_figures, abbreviate,
                                             exponential) } } : TRUE

\* formatter.py:72-88
FormatWithLength(normalized, length, significant_figures, abbreviate, exponential, latex) ==
    IF length.raised # "" THEN [raised |-> length.raised, value |-> ""]
    ELSE CHOOSE returned \in
        { FormatWithIndices(normalized, indices, significant_figures,
                            abbreviate, exponential, latex) :
            indices \in { _get_rounding_indices(length.value,
                                                significant_figures) } } : TRUE

\* formatter.py:69-88
FormatNormalized(normalized, length_control, significant_figures, abbreviate, exponential, latex) ==
    IF normalized.raised # "" THEN [raised |-> normalized.raised, value |-> ""]
    ELSE CHOOSE returned \in
        { FormatWithLength(normalized, length, significant_figures, abbreviate,
                           exponential, latex) :
            length \in { _get_length_value(normalized.value, normalized.errors,
                                           length_control) } } : TRUE

\* formatter.py:63-88
FormatIntegrated(integrated, length_control, significant_figures, abbreviate, exponential, latex) ==
    IF integrated.raised # "" THEN [raised |-> integrated.raised, value |-> ""]
    ELSE CHOOSE returned \in
        { FormatNormalized(normalized, length_control, significant_figures,
                           abbreviate, exponential, latex) :
            normalized \in
                { IF exponential
                  THEN _normalize(integrated.value, integrated.errors)
                  ELSE [raised   |-> "",
                        value    |-> integrated.value,
                        errors   |-> integrated.errors,
                        exponent |-> 0] } } : TRUE

\* the whole call: the string returned, or the exception raised
format_multiple_errors(value, errors, length_control, significant_figures, abbreviate, exponential, latex) ==
    CHOOSE returned \in
        { FormatIntegrated(integrated, length_control, significant_figures,
                           abbreviate, exponential, latex) :
            integrated \in { _normalize_integrated_errors(value, List(errors)) } } : TRUE

----------------------------------------------------------------------------
(* The arguments calls are made with *)

\* central values: 12345, 1.0, 0, -0.004, 9.96, 999.9999999999999,
\* ufloat(1.234, 0.012), an Obs of value 1.0 after gamma_method() (dvalue
\* 0.036) and before it
Values ==
    { Float(Num(12345, 0)), Float(Num(1, 0)), Float(Zero), Float(Num(-4, -3)),
      Float(Num(996, -2)), Float(Below(Num(1000, 0))),
      UFloat(Num(1234, -3), Num(12, -3)),
      Obs(Num(1, 0), Num(36, -3)), Obs(Num(1, 0), Zero) }

\* errors: 6789, 0.0999, 0, (1011, 1213), (0.034, 0.056)
ErrorTerms ==
    { Leaf(Num(6789, 0)), Leaf(Num(999, -4)), Leaf(Zero),
      Pair(Num(1011, 0), Num(1213, 0)), Pair(Num(34, -3), Num(56, -3)) }

\* the lists of up to MaxErrors different errors
ErrorLists ==
    UNION { { errors \in [1..n -> ErrorTerms] :
                \A i, j \in 1..n : errors[i] = errors[j] => i = j }
            : n \in 0..MaxErrors }

\* the two documented policies and one that is not
LengthControls == {"smallest", "central", "largest"}

Arguments ==
    [value               : Values,
     errors              : ErrorLists,
     length_control      : LengthControls,
     significant_figures : 1..MaxSigFigs,
     abbreviate          : BOOLEAN,
     exponential         : BOOLEAN,
     latex               : BOOLEAN]

\* calls with the one error 0.35, the float next below the tie of 0.3 and
\* 0.4, printed with one decimal place
TieArguments ==
    [value               : {Float(Num(1, 0))},
     errors              : {<<Leaf(Below(Num(35, -2)))>>},
     length_control      : {"smallest"},
     significant_figures : {1},
     abbreviate          : BOOLEAN,
     exponential         : {FALSE},
     latex               : BOOLEAN]

NoArguments ==
    [value |-> Float(Zero), errors |-> <<>>, length_control |-> "smallest",
     significant_figures |-> 2, abbreviate |-> FALSE, exponential |-> FALSE,
     latex |-> FALSE]

----------------------------------------------------------------------------
(* format_multiple_errors, stage by stage *)

\* no direct call, nothing returned
NoCall == [function |-> ""]

NoOutput == [raised |-> "", returned |-> FALSE, value |-> [type |-> "NoneType", items |-> <<>>]]

InitFormatter ==
    /\ pc = "idle"
    /\ args = NoArguments
    /\ normalised_value = Zero
    /\ normalised_errors = List(<<>>)
    /\ exponent = 0
    /\ length_value = Zero
    /\ first_digit_index = 0
    /\ decimal_places = 0
    /\ formatted_numbers = List(<<>>)
    /\ result = ""
    /\ raised = ""

Init ==
    /\ InitFormatter
    /\ call = NoCall
    /\ output = NoOutput

\* the call raises exception
Raise(exception) ==
    /\ pc' = "raised"
    /\ raised' = exception

\* a caller calls format_multiple_errors(value, *errors, ...)
Call ==
    /\ pc = "idle"
    /\ \E a \in Arguments \cup TieArguments : args' = a
    /\ pc' = "called"
    /\ UNCHANGED <<normalised_value, normalised_errors, exponent, length_value,
                   first_digit_index, decimal_places, formatted_numbers, result,
                   raised>>
    /\ UNCHANGED <<call, output>>

\* formatter.py:60-63
NormalizeIntegratedErrors ==
    /\ pc = "called"
    /\ LET r == _normalize_integrated_errors(args.value, List(args.errors))
       IN  IF r.raised # ""
           THEN /\ Raise(r.raised)
                /\ UNCHANGED <<normalised_value, normalised_errors, exponent>>
           ELSE /\ normalised_value' = r.value
                /\ normalised_errors' = r.errors
                /\ exponent' = 0
                /\ pc' = "integrated"
                /\ UNCHANGED raised
    /\ UNCHANGED <<args, length_value, first_digit_index, decimal_places,
                   formatted_numbers, result>>
    /\ UNCHANGED <<call, output>>

\* formatter.py:64-67
Normalize ==
    /\ pc = "integrated"
    /\ IF args.exponential
       THEN LET r == _normalize(normalised_value, normalised_errors)
            IN  IF r.raised # ""
                THEN /\ Raise(r.raised)
                     /\ UNCHANGED <<normalised_value, normalised_errors, exponent>>
                ELSE /\ normalised_value' = r.value
                     /\ normalised_errors' = r.errors
                     /\ exponent' = r.exponent
                     /\ pc' = "normalized"
                     /\ UNCHANGED raised
       ELSE /\ pc' = "normalized"
            /\ UNCHANGED <<normalised_value, normalised_errors, exponent, raised>>
    /\ UNCHANGED <<args, length_value, first_digit_index, decimal_places,
                   formatted_numbers, result>>
    /\ UNCHANGED <<call, output>>

\* formatter.py:69-71
GetLengthValue ==
    /\ pc = "normalized"
    /\ LET r == _get_length_value(normalised_value, normalised_errors,
                                  args.length_control)
       IN  IF r.raised # ""
           THEN /\ Raise(r.raised)
                /\ UNCHANGED length_value
           ELSE /\ length_value' = r.value
                /\ pc' = "length"
                /\ UNCHANGED raised
    /\ UNCHANGED <<args, normalised_value, normalised_errors, exponent,
                   first_digit_index, decimal_places, formatted_numbers, result>>
    /\ UNCHANGED <<call, output>>

\* formatter.py:72-74
GetRoundingIndices ==
    /\ pc = "length"
    /\ LET r == _get_rounding_indices(length_value, args.significant_figures)
       IN  /\ first_digit_index' = r[1]
           /\ decimal_places' = r[2]
    /\ pc' = "indices"
    /\ UNCHANGED <<args, normalised_value, normalised_errors, exponent,
                   length_value, formatted_numbers, result, raised>>
    /\ UNCHANGED <<call, output>>

\* formatter.py:76-84
FormatNumbers ==
    /\ pc = "indices"
    /\ LET r == FormattedNumbers(normalised_value, normalised_errors,
                                 first_digit_index, decimal_places,
                                 args.significant_figures, args.abbreviate,
                                 args.exponential)
       IN  IF r.raised # ""
           THEN /\ Raise(r.raised)
                /\ UNCHANGED formatted_numbers
           ELSE /\ formatted_numbers' = r.value
                /\ pc' = "formatted"
                /\ UNCHANGED raised
    /\ UNCHANGED <<args, normalised_value, normalised_errors, exponent,
                   length_value, first_digit_index, decimal_places, result>>
    /\ UNCHANGED <<call, output>>

\* formatter.py:86-88
JoinNumbers ==
    /\ pc = "formatted"
    /\ result' = _join_numbers(formatted_numbers, args.abbreviate, args.latex,
                               exponent)
    /\ pc' = "returned"
    /\ UNCHANGED <<args, normalised_value, normalised_errors, exponent,
                   length_value, first_digit_index, decimal_places,
                   formatted_numbers, raised>>
    /\ UNCHANGED <<call, output>>

\* the call is over, with a string or an exception; nothing persists
Return ==
    /\ pc \in {"returned", "raised"}
    /\ pc' = "idle"
    /\ args' = NoArguments
    /\ normalised_value' = Zero
    /\ normalised_errors' = List(<<>>)
    /\ exponent' = 0
    /\ length_value' = Zero
    /\ first_digit_index' = 0
    /\ decimal_places' = 0
    /\ formatted_numbers' = List(<<>>)
    /\ result' = ""
    /\ raised' = ""
    /\ UNCHANGED <<call, output>>

Next ==
    \/ Call
    \/ NormalizeIntegratedErrors
    \/ Normalize
    \/ GetLengthValue
    \/ GetRoundingIndices
    \/ FormatNumbers
    \/ JoinNumbers
    \/ Return

Spec == Init /\ [][Next]_vars

----------------------------------------------------------------------------
(* pandas.py: columns and frames of values and errors *)

\* None
None == [type |-> "NoneType", items |-> <<>>]

\* pd.Series(data=data, index=index), with its name: the string Str(name), or
\* None
Series(name, index, data) ==
    [type |-> "Series", name |-> name, index |-> index, data |-> data]

\* a DataFrame: its columns are Series over its index
DataFrame(index, columns) ==
    [type |-> "DataFrame", index |-> index, columns |-> columns]

\* whether df has a column of that name, and df[name]
HasColumn(df, name) == \E k \in DOMAIN df.columns : df.columns[k].name = name

Column(df, name) ==
    df.columns[CHOOSE k \in DOMAIN df.columns : df.columns[k].name = name]

\* the exceptions of pandas.py and of the frame
ValueTypeError == "TypeError: If df is specified, then value must be a column name"

ErrorTypeError == "TypeError: Invalid error: each element of errors must be a column name or tuple of column names"

ColumnTypeError == "TypeError: Each column must be a str, tuple, list, or ColumnSpec"

KeyError == "KeyError"

NoObjectsError == "ValueError: No objects to concatenate"

\* {**defaults, **overrides}
MergeKeywords(defaults, overrides) ==
    [key \in DOMAIN defaults \cup DOMAIN overrides |->
       IF key \in DOMAIN overrides THEN overrides[key] ELSE defaults[key]]

\* the value of a keyword parameter, its default when it is not passed
Keyword(fme_kwargs, key, default) ==
    IF key \in DOMAIN fme_kwargs THEN fme_kwargs[key] ELSE default

\* format_multiple_errors(single_value, *single_errors, **fme_kwargs), the
\* cell of the value column being a plain number
FormatRow(single_value, single_errors, fme_kwargs) ==
    format_multiple_errors(Float(Item(single_value)), single_errors,
                           Keyword(fme_kwargs, "length_control", "smallest"),
                           Keyword(fme_kwargs, "significant_figures", 2),
                           Keyword(fme_kwargs, "abbreviate", FALSE),
                           Keyword(fme_kwargs, "exponential", FALSE),
                           Keyword(fme_kwargs, "latex", FALSE))

\* a variant of _tuplify that makes the tuples in reverse order of the columns
_tuplify_reversed(columns) ==
    Series(None, columns[1].index,
           [i \in DOMAIN columns[1].index |->
              Tuple([k \in DOMAIN columns |->
                       columns[Len(columns) + 1 - k].data[i]])])

\* the columns, all over one index, made one column of tuples
_tuplify(columns) ==
    Series(None, columns[1].index,
           [i \in DOMAIN columns[1].index |->
              Tuple([k \in DOMAIN columns |-> columns[k].data[i]])])

\* the first exception among the results, "" if none raised
RECURSIVE FirstRaised(_)
FirstRaised(results) ==
    IF results = <<>> THEN ""
    ELSE IF Head(results).raised # "" THEN Head(results).raised
    ELSE FirstRaised(Tail(results))

\* a variant of _format_column that numbers the rows of its result anew
_format_column_reindexed(value, errors, fme_kwargs) ==
    LET errors_flattened ==
            [k \in DOMAIN errors |->
               IF errors[k].type = "tuple" THEN _tuplify(errors[k].items)
               ELSE errors[k]]
    IN  CHOOSE returned \in
            { IF FirstRaised(formatted_errors) # ""
              THEN [raised |-> FirstRaised(formatted_errors), value |-> None]
              ELSE [raised |-> "",
                    value  |-> Series(None, [i \in DOMAIN value.index |-> i - 1],
                                      [i \in DOMAIN value.index |->
                                         Str(formatted_errors[i].value)])] :
                formatted_errors \in
                    { [i \in DOMAIN value.index |->
                         FormatRow(value.data[i],
                                   [k \in DOMAIN errors_flattened |->
                                      errors_flattened[k].data[i]],
                                   fme_kwargs)] } } : TRUE

\* pandas.py:17-52; the columns are over one index, so that pd.concat puts
\* them side by side row by row
_format_column(value, errors, fme_kwargs) ==
    LET errors_flattened ==
            [k \in DOMAIN errors |->
               IF errors[k].type = "tuple" THEN _tuplify(errors[k].items)
               ELSE errors[k]]
    IN  CHOOSE returned \in
            { IF FirstRaised(formatted_errors) # ""
              THEN [raised |-> FirstRaised(formatted_errors), value |-> None]
              ELSE [raised |-> "",
                    value  |-> Series(None, value.index,
                                      [i \in DOMAIN value.index |->
                                         Str(formatted_errors[i].value)])] :
                formatted_errors \in
                    { [i \in DOMAIN value.index |->
                         FormatRow(value.data[i],
                                   [k \in DOMAIN errors_flattened |->
                                      errors_flattened[k].data[i]],
                                   fme_kwargs)] } } : TRUE

\* pandas.py:117-129: the columns the errors name, or the first exception
RECURSIVE ErrorSeries(_, _)
ErrorSeries(df, errors) ==
    IF errors = <<>> THEN [raised |-> "", value |-> <<>>]
    ELSE LET error == Head(errors)
             names == IF error.type = "tuple" THEN error.items ELSE <<error>>
             rest  == ErrorSeries(df, Tail(errors))
         IN  IF error.type \notin {"str", "tuple"}
             THEN [raised |-> ErrorTypeError, value |-> <<>>]
             ELSE IF \E k \in DOMAIN names : ~HasColumn(df, names[k])
             THEN [raised |-> KeyError, value |-> <<>>]
             ELSE IF rest.raised # "" THEN rest
             ELSE [raised |-> "",
                   value  |->
                     <<IF error.type = "str" THEN Column(df, names[1])
                       ELSE _tuplify([k \in DOMAIN names |-> Column(df, names[k])])>>
                     \o rest.value]

format_column_errors(value, errors, df, fme_kwargs) ==
    IF df = None THEN _format_column(value, errors, fme_kwargs)
    ELSE IF value.type # "str" THEN [raised |-> ValueTypeError, value |-> None]
    ELSE LET error_series == ErrorSeries(df, errors)
         IN  IF error_series.raised # ""
             THEN [raised |-> error_series.raised, value |-> None]
             ELSE IF ~HasColumn(df, value)
             THEN [raised |-> KeyError, value |-> None]
             ELSE _format_column(Column(df, value), error_series.value,
                                 fme_kwargs)

\* ColumnSpec(value, *errors, name=name, **fme_kwargs)
ColumnSpec(value, errors, name, fme_kwargs) ==
    [type       |-> "ColumnSpec",
     value      |-> value,
     errors     |-> errors,
     fme_kwargs |-> fme_kwargs,
     name       |-> IF name # None THEN name ELSE value]

\* a variant of FormattedColumn where the keywords of the call win over
\* those of the ColumnSpec
FormattedColumn_defaults_win(df, column, fme_kwargs) ==
    CHOOSE returned \in
        { IF new_column.raised # "" THEN new_column
          ELSE [raised |-> "",
                value  |-> [new_column.value EXCEPT !.name = column.name]] :
            new_column \in
                { format_column_errors(column.value, column.errors, df,
                                       MergeKeywords(column.fme_kwargs, fme_kwargs)) } } : TRUE

\* pandas.py:216-219: the column a ColumnSpec asks for
FormattedColumn(df, column, fme_kwargs) ==
    CHOOSE returned \in
        { IF new_column.raised # "" THEN new_column
          ELSE [raised |-> "",
                value  |-> [new_column.value EXCEPT !.name = column.name]] :
            new_column \in
                { format_column_errors(column.value, column.errors, df,
                                       MergeKeywords(fme_kwargs, column.fme_kwargs)) } } : TRUE

\* pandas.py:200-220: the columns of the result, or the first exception
RECURSIVE Content(_, _, _)
Content(df, columns, fme_kwargs) ==
    IF columns = <<>> THEN [raised |-> "", value |-> <<>>]
    ELSE LET column == Head(columns)
             spec   == IF column.type \in {"tuple", "list"}
                       THEN ColumnSpec(column.items[1], Tail(column.items),
                                       None, <<>>)
                       ELSE column
         IN  CHOOSE returned \in
                 { IF first.raised # ""
                   THEN [raised |-> first.raised, value |-> <<>>]
                   ELSE IF rest.raised # "" THEN rest
                   ELSE [raised |-> "", value |-> <<first.value>> \o rest.value] :
                     first \in
                         { IF column.type = "str"
                           THEN IF HasColumn(df, column)
                                THEN [raised |-> "", value |-> Column(df, column)]
                                ELSE [raised |-> KeyError, value |-> None]
                           ELSE IF spec.type # "ColumnSpec"
                           THEN [raised |-> ColumnTypeError, value |-> None]
                           ELSE FormattedColumn(df, spec, fme_kwargs) },
                     rest \in { Content(df, Tail(columns), fme_kwargs) } } : TRUE

format_dataframe_errors(df, columns, fme_kwargs) ==
    CHOOSE returned \in
        { IF content.raised # "" THEN [raised |-> content.raised, value |-> None]
          ELSE IF content.value = <<>>
          THEN [raised |-> NoObjectsError, value |-> None]
          ELSE [raised |-> "", value |-> DataFrame(df.index, content.value)] :
            content \in { Content(df, columns, fme_kwargs) } } : TRUE

----------------------------------------------------------------------------
(* Calls of the functions of pandas.py *)

\* the most rows of a frame, and the most column specifications of a call
MaxRows == 2

MaxColumns == 2

\* rows of the frame of the tests (test_pandas.py:20-46) and one more, with
\* the labels they have in the index
FixtureRows ==
    << [label |-> 0, a |-> Num(3, 0), d_value |-> Num(3589, -3),
        d_upper |-> Num(793, -3), d_lower |-> Num(238, -3),
        d_systematic |-> Num(462, -3)],
       [label |-> 1, a |-> Num(2, 0), d_value |-> Num(8459, -3),
        d_upper |-> Num(45, -3), d_lower |-> Num(235, -3),
        d_systematic |-> Num(360, -3)],
       [label |-> 2, a |-> Num(1, 0), d_value |-> Num(1234, -3),
        d_upper |-> Num(34, -3), d_lower |-> Num(56, -3),
        d_systematic |-> Num(12, -3)] >>

\* the frame of the rows FixtureRows[rows[1]], FixtureRows[rows[2]], ...
Frame(rows) ==
    LET index == [i \in DOMAIN rows |-> FixtureRows[rows[i]].label]
        row(i) == FixtureRows[rows[i]]
    IN  DataFrame(index,
          << Series(Str("a"), index, [i \in DOMAIN rows |-> Leaf(row(i).a)]),
             Series(Str("d_value"), index,
                    [i \in DOMAIN rows |-> Leaf(row(i).d_value)]),
             Series(Str("d_upper"), index,
                    [i \in DOMAIN rows |-> Leaf(row(i).d_upper)]),
             Series(Str("d_lower"), index,
                    [i \in DOMAIN rows |-> Leaf(row(i).d_lower)]),
             Series(Str("d_asymmetric"), index,
                    [i \in DOMAIN rows |-> Pair(row(i).d_upper, row(i).d_lower)]),
             Series(Str("d_systematic"), index,
                    [i \in DOMAIN rows |-> Leaf(row(i).d_systematic)]) >>)

\* the frames of up to MaxRows different rows, in any order
Frames ==
    { Frame(rows) :
        rows \in UNION { { r \in [1..n -> DOMAIN FixtureRows] :
                             \A i, j \in 1..n : r[i] = r[j] => i = j }
                         : n \in 1..MaxRows } }

\* keywords for format_multiple_errors: none, or some of abbreviate and latex
NoKeywords == [key \in {} |-> TRUE]

KeywordChoices ==
    { NoKeywords, [abbreviate |-> TRUE], [abbreviate |-> FALSE],
      [latex |-> TRUE], [abbreviate |-> TRUE, latex |-> TRUE] }

\* the errors of a call of format_column_errors: the systematic error and
\* the asymmetric one, each at most once, in any order
ErrorChoices ==
    { <<>>, <<"systematic">>, <<"asymmetric">>,
      <<"systematic", "asymmetric">>, <<"asymmetric", "systematic">> }

\* an error as the caller gives it: a column name, the asymmetric error as a
\* tuple of two column names or as the name of the column of tuples; as
\* Series, the columns themselves
GivenError(frame, error, pairs_as, by) ==
    LET named == IF error = "systematic" THEN Str("d_systematic")
                 ELSE IF pairs_as = "columns"
                 THEN Tuple(<<Str("d_upper"), Str("d_lower")>>)
                 ELSE Str("d_asymmetric")
    IN  IF by = "name" THEN named
        ELSE IF named.type = "tuple"
        THEN Tuple([k \in DOMAIN named.items |-> Column(frame, named.items[k])])
        ELSE Column(frame, named)

\* calls of format_column_errors on the columns of a frame, by name with df
\* or as Series, and the two calls of the tests that give None for a name
ColumnCalls ==
    { [function   |-> "format_column_errors",
       frame      |-> frame,
       value      |-> IF by = "name" THEN Str("d_value")
                      ELSE Column(frame, Str("d_value")),
       errors     |-> [k \in DOMAIN errors |->
                         GivenError(frame, errors[k], pairs_as, by)],
       df         |-> IF by = "name" THEN frame ELSE None,
       columns    |-> <<>>,
       fme_kwargs |-> fme_kwargs] :
        frame \in Frames, errors \in ErrorChoices,
        pairs_as \in {"columns", "cells"}, by \in {"name", "Series"},
        fme_kwargs \in KeywordChoices }
    \cup
    { [function   |-> "format_column_errors",
       frame      |-> frame,
       value      |-> value_errors[1],
       errors     |-> value_errors[2],
       df         |-> frame,
       columns    |-> <<>>,
       fme_kwargs |-> NoKeywords] :
        frame \in Frames,
        value_errors \in { <<None, <<>> >>, <<Str("a"), <<None>> >>,
                           <<Str("d_value"), <<Str("d_systematic"), None>> >> } }

\* column specifications: a name, a tuple, a list, ColumnSpecs with and
\* without name and keywords, and None
ColumnSpecs ==
    { Str("a"),
      Tuple(<<Str("d_value"), Str("d_systematic")>>),
      List(<<Str("d_value"), Tuple(<<Str("d_upper"), Str("d_lower")>>),
             Str("d_systematic")>>),
      ColumnSpec(Str("d_value"), <<Str("d_asymmetric"), Str("d_systematic")>>,
                 Str("d"), [abbreviate |-> TRUE]),
      ColumnSpec(Str("d_value"), <<Str("d_systematic")>>, None,
                 [latex |-> TRUE]),
      None }

DataFrameCalls ==
    { [function   |-> "format_dataframe_errors",
       frame      |-> frame,
       value      |-> None,
       errors     |-> <<>>,
       df         |-> frame,
       columns    |-> columns,
       fme_kwargs |-> fme_kwargs] :
        frame \in Frames,
        columns \in UNION { [1..n -> ColumnSpecs] : n \in 1..MaxColumns },
        fme_kwargs \in KeywordChoices }

PandasInit ==
    /\ InitFormatter
    /\ call \in ColumnCalls \cup DataFrameCalls
    /\ output = NoOutput

\* the caller's format_column_errors(value, *errors, df=df, **fme_kwargs)
FormatColumnErrors ==
    /\ call.function = "format_column_errors"
    /\ ~output.returned
    /\ LET r == format_column_errors(call.value, call.errors, call.df,
                                     call.fme_kwargs)
       IN  output' = [raised |-> r.raised, returned |-> TRUE, value |-> r.value]
    /\ UNCHANGED <<formatter_vars, call>>

\* the caller's format_dataframe_errors(df, columns, **fme_kwargs)
FormatDataframeErrors ==
    /\ call.function = "format_dataframe_errors"
    /\ ~output.returned
    /\ LET r == format_dataframe_errors(call.df, call.columns, call.fme_kwargs)
       IN  output' = [raised |-> r.raised, returned |-> TRUE, value |-> r.value]
    /\ UNCHANGED <<formatter_vars, call>>

PandasNext ==
    \/ FormatColumnErrors
    \/ FormatDataframeErrors

PandasSpec == PandasInit /\ [][PandasNext]_vars

----------------------------------------------------------------------------
(* The helpers of formatter.py, called on their own *)

\* decimal_places ranges over 0 .. MaxDecimalPlaces: format_multiple_errors
\* formats the central value with the same decimal_places first
\* (formatter.py:77), so that the single-error formatters are reached with
\* none below 0
MaxDecimalPlaces == 2

\* controlling values: 0, 1.0, 9.96, 9.5, 2.5, 0.0999, 0.35, 0.034, -0.004,
\* -99.7, 12345, 999.9999999999999
LengthValues ==
    { Zero, Num(1, 0), Num(996, -2), Num(95, -1), Num(25, -1), Num(999, -4),
      Below(Num(35, -2)), Num(34, -3), Num(-4, -3), Num(-997, -1),
      Num(12345, 0), Below(Num(1000, 0)) }

\* single errors: 0, 1.0, 2.5, -2.5, 25, 6789, -1011, 0.5, 0.0999, 0.35,
\* 0.034, -0.004
SingleErrors ==
    { Zero, Num(1, 0), Num(25, -1), Num(-25, -1), Num(25, 0), Num(6789, 0),
      Num(-1011, 0), Num(5, -1), Num(999, -4), Below(Num(35, -2)),
      Num(34, -3), Num(-4, -3) }

\* nested structures: [], [1.234], [0.01, (0.123, 0.234), 0.49] (the errors
\* of test_normalize), (20, 3), [[1, (2, 3)], 4], (1, (2, 3)), [[5], []]
Structures ==
    { List(<<>>),
      List(<<Leaf(Num(1234, -3))>>),
      List(<<Leaf(Num(1, -2)), Pair(Num(123, -3), Num(234, -3)), Leaf(Num(49, -2))>>),
      Pair(Num(20, 0), Num(3, 0)),
      List(<<List(<<Leaf(Num(1, 0)), Pair(Num(2, 0), Num(3, 0))>>), Leaf(Num(4, 0))>>),
      Tuple(<<Leaf(Num(1, 0)), Pair(Num(2, 0), Num(3, 0))>>),
      List(<<List(<<Leaf(Num(5, 0))>>), List(<<>>)>>) }

\* functions mapped over them: division by 10^-1 and by 10^2, rounding to an
\* integer string, the two renderings of an error
MapFunctions ==
    { DivideLambda(-1), DivideLambda(2), IntegerLambda(0),
      FormatLambda(TRUE, MaxDecimalPlaces), FormatLambda(FALSE, 1) }

\* central values given to _normalize: 0, 1.234, 12345, -0.004
NormalizeValues == { Zero, Num(1234, -3), Num(12345, 0), Num(-4, -3) }

\* error lists given to _normalize: [], [()], [0.01, (0.123, 0.234), 0.49],
\* [0, (0, 0)], [-5, -0.2], [0.5, (20, 3)], [6789]
NormalizeErrors ==
    { List(<<>>),
      List(<<Tuple(<<>>)>>),
      List(<<Leaf(Num(1, -2)), Pair(Num(123, -3), Num(234, -3)), Leaf(Num(49, -2))>>),
      List(<<Leaf(Zero), Pair(Zero, Zero)>>),
      List(<<Leaf(Num(-5, 0)), Leaf(Num(-2, -1))>>),
      List(<<Leaf(Num(5, -1)), Pair(Num(20, 0), Num(3, 0))>>),
      List(<<Leaf(Num(6789, 0))>>) }

HelperCalls ==
    { [function |-> "_get_rounding_indices", length_value |-> x,
       significant_figures |-> n] :
        x \in LengthValues, n \in 1..MaxSigFigs }
    \cup
    { [function |-> f, error |-> x, decimal_places |-> d] :
        f \in {"_abbreviated_single_error", "_unabbreviated_single_error"},
        x \in SingleErrors, d \in 0..MaxDecimalPlaces }
    \cup
    { [function |-> "_map_recursive", func |-> f, data |-> s] :
        f \in MapFunctions, s \in Structures }
    \cup
    { [function |-> "_normalize", value |-> v, errors |-> e] :
        v \in NormalizeValues, e \in NormalizeErrors }

\* whether the single-error formatter gets as far as its f-string, whose
\* format specification is built from decimal_places
ReachesFormat(abbreviate, error, decimal_places_) ==
    IF abbreviate
    THEN ~Less(error, Num(1, 0))
    ELSE ~IsZero(Round(error, decimal_places_))

\* formatters[abbreviate](error, decimal_places): the string, or the error of
\* a format specification Python rejects
SingleError(abbreviate, error, decimal_places_) ==
    IF ReachesFormat(abbreviate, error, decimal_places_)
       /\ ~ValidFormatSpec(decimal_places_)
    THEN [raised |-> FormatSpecError, value |-> ""]
    ELSE [raised |-> "",
          value  |-> IF abbreviate
                     THEN _abbreviated_single_error(error, decimal_places_)
                     ELSE _unabbreviated_single_error(error, decimal_places_)]

HelperInit ==
    /\ InitFormatter
    /\ call \in HelperCalls
    /\ output = NoOutput

\* _get_rounding_indices(length_value, significant_figures)
CallGetRoundingIndices ==
    /\ call.function = "_get_rounding_indices"
    /\ ~output.returned
    /\ output' = [raised   |-> "",
                  returned |-> TRUE,
                  value    |-> _get_rounding_indices(call.length_value,
                                                    call.significant_figures)]
    /\ UNCHANGED <<formatter_vars, call>>

\* _unabbreviated_single_error(error, decimal_places)
CallUnabbreviatedSingleError ==
    /\ call.function = "_unabbreviated_single_error"
    /\ ~output.returned
    /\ LET r == SingleError(FALSE, call.error, call.decimal_places)
       IN  output' = [raised |-> r.raised, returned |-> TRUE, value |-> r.value]
    /\ UNCHANGED <<formatter_vars, call>>

\* _abbreviated_single_error(error, decimal_places)
CallAbbreviatedSingleError ==
    /\ call.function = "_abbreviated_single_error"
    /\ ~output.returned
    /\ LET r == SingleError(TRUE, call.error, call.decimal_places)
       IN  output' = [raised |-> r.raised, returned |-> TRUE, value |-> r.value]
    /\ UNCHANGED <<formatter_vars, call>>

\* _map_recursive(func, data)
CallMapRecursive ==
    /\ call.function = "_map_recursive"
    /\ ~output.returned
    /\ output' = [raised   |-> "",
                  returned |-> TRUE,
                  value    |-> _map_recursive(call.func, call.data)]
    /\ UNCHANGED <<formatter_vars, call>>

\* _normalize(value, errors)
CallNormalize ==
    /\ call.function = "_normalize"
    /\ ~output.returned
    /\ LET r == _normalize(call.value, call.errors)
       IN  output' = [raised   |-> r.raised,
                      returned |-> TRUE,
                      value    |-> [value    |-> r.value,
                                    errors   |-> r.errors,
                                    exponent |-> r.exponent]]
    /\ UNCHANGED <<formatter_vars, call>>

HelperNext ==
    \/ CallGetRoundingIndices
    \/ CallUnabbreviatedSingleError
    \/ CallAbbreviatedSingleError
    \/ CallMapRecursive
    \/ CallNormalize

HelperSpec == HelperInit /\ [][HelperNext]_vars

----------------------------------------------------------------------------
(* Reading strings back, for the properties below *)

DigitValue(c) ==
    CASE c = "0" -> 0 [] c = "1" -> 1 [] c = "2" -> 2 [] c = "3" -> 3
      [] c = "4" -> 4 [] c = "5" -> 5 [] c = "6" -> 6 [] c = "7" -> 7
      [] c = "8" -> 8 [] c = "9" -> 9

IsDigit(c) == c \in {"0", "1", "2", "3", "4", "5", "6", "7", "8", "9"}

RECURSIVE HasPoint(_)
HasPoint(s) == s # "" /\ (Head(s) = "." \/ HasPoint(Tail(s)))

\* the number of characters after the decimal point, 0 without one
RECURSIVE FractionLength(_)
FractionLength(s) ==
    IF s = "" THEN 0
    ELSE IF Head(s) = "." THEN Len(s) - 1
    ELSE FractionLength(Tail(s))

\* the digits of s after position `point` digits of fraction: m is the
\* mantissa read so far with nfrac fractional digits, zeros the zeros of the
\* fraction read since and not yet taken into m
RECURSIVE ScanNumber(_, _, _, _, _)
ScanNumber(s, m, nfrac, zeros, fraction) ==
    IF s = "" THEN Num(m, -nfrac)
    ELSE LET c == Head(s)
         IN  IF c = "." THEN ScanNumber(Tail(s), m, 0, 0, TRUE)
             ELSE IF ~fraction
             THEN ScanNumber(Tail(s), 10 * m + DigitValue(c), 0, 0, FALSE)
             ELSE IF c = "0"
             THEN ScanNumber(Tail(s), m, nfrac, zeros + 1, TRUE)
             ELSE ScanNumber(Tail(s), m * Pow10(zeros + 1) + DigitValue(c),
                             nfrac + zeros + 1, 0, TRUE)

\* the number a fixed-point or integer string denotes
ParseNumber(s) ==
    IF s # "" /\ Head(s) = "-"
    THEN Neg(ScanNumber(Tail(s), 0, 0, 0, FALSE))
    ELSE ScanNumber(s, 0, 0, 0, FALSE)

RECURSIVE AllDigits(_)
AllDigits(s) == s = "" \/ (IsDigit(Head(s)) /\ AllDigits(Tail(s)))

\* s is how Python prints an integer: digits without leading zero, "-" in
\* front of a negative one
IsPlainInteger(s) ==
    LET digits == IF s # "" /\ Head(s) = "-" THEN Tail(s) ELSE s
    IN  /\ digits # ""
        /\ AllDigits(digits)
        /\ (Head(digits) = "0" => s = "0")

\* the leaves of an error, numbers or strings, in order
LeavesOf(error) == Components(error)

\* the call has rendered its numbers
Rendered == pc \in {"formatted", "returned"}

\* the call took the branch that needs decimals
DecimalsBranch ==
    first_digit_index + 1 < args.significant_figures \/ args.exponential

\* the number a rendered leaf stands for: an abbreviated error printed
\* without decimal point counts units of 10^-decimal_places
ReadBack(s) ==
    IF DecimalsBranch /\ args.abbreviate /\ ~HasPoint(s)
    THEN MulPow10(ParseNumber(s), -decimal_places)
    ELSE ParseNumber(s)

\* |a - b| of the decimals a and b
Difference(a, b) ==
    LET lo == IF a.e < b.e THEN a.e ELSE b.e
    IN  Num(Abs(a.m * Pow10(a.e - lo) - b.m * Pow10(b.e - lo)), lo)

\* r is x rounded at decimal_places_: a multiple of 10^-decimal_places_ no
\* further than half a unit of that place from x (x taken as the decimal it
\* was written as; which way a tie goes is left open)
IsRoundingAt(r, x, decimal_places_) ==
    /\ IsZero(r) \/ r.e >= -decimal_places_
    /\ ~LessAbs(Num(5, -decimal_places_ - 1), Difference(r, x))

----------------------------------------------------------------------------
(* Properties *)

\* C1: in a call the central value and every error leaf (a scalar error, both
\* components of a pair) are rounded at one and the same decimal_places, which
\* comes from the controlling value: every rendered string stands for its
\* number rounded at decimal_places and, where it shows a decimal point, shows
\* decimal_places digits after it (the "0.0" of an error rounded to zero
\* apart), in the decimals branch and the integer branch, abbreviated or not.
C1_OneDecimalPlaces ==
    Rendered =>
      LET central == Item(formatted_numbers.items[1])
      IN  /\ decimal_places = args.significant_figures - first_digit_index - 1
          /\ Len(formatted_numbers.items) = 1 + Len(normalised_errors.items)
          /\ IsRoundingAt(ParseNumber(central), normalised_value, decimal_places)
          /\ DecimalsBranch => FractionLength(central) = decimal_places
          /\ \A i \in DOMAIN normalised_errors.items :
               LET numbers == LeavesOf(normalised_errors.items[i])
                   strings == LeavesOf(formatted_numbers.items[i + 1])
               IN  /\ Len(strings) = Len(numbers)
                   /\ \A j \in DOMAIN numbers :
                        /\ IsRoundingAt(ReadBack(strings[j]), numbers[j],
                                        decimal_places)
                        /\ HasPoint(strings[j]) /\ strings[j] # "0.0"
                             => FractionLength(strings[j]) = decimal_places

\* C1 happens: an abbreviated call with a scalar error and a pair, rendered
\* with decimals
C1_Witness ==
    /\ pc = "returned"
    /\ args.abbreviate
    /\ DecimalsBranch
    /\ decimal_places > 0
    /\ Len(normalised_errors.items) = 2
    /\ normalised_errors.items[1].type = "float"
    /\ normalised_errors.items[2].type = "tuple"

\* the call of the scenario: format(12345, 6789, (1011, 1213))
IntegerScenario(abbreviate, latex) ==
    [value               |-> Float(Num(12345, 0)),
     errors              |-> <<Leaf(Num(6789, 0)), Pair(Num(1011, 0), Num(1213, 0))>>,
     length_control      |-> "smallest",
     significant_figures |-> 2,
     abbreviate          |-> abbreviate,
     exponential         |-> FALSE,
     latex               |-> latex]

\* C2: when decimals are not required (first_digit_index + 1 >=
\* significant_figures, exponential false) decimal_places is <= 0 and the
\* central value and every error leaf are printed as the plain integer of the
\* number rounded to decimal_places, whatever abbreviate is; the call
\* format(12345, 6789, (1011, 1213)) returns "12300 ± 6800 (+1000 / -1200)".
C2_PlainIntegers ==
    /\ Rendered /\ ~DecimalsBranch =>
         /\ decimal_places <= 0
         /\ \A i \in DOMAIN formatted_numbers.items :
              LET numbers == IF i = 1 THEN <<normalised_value>>
                             ELSE LeavesOf(normalised_errors.items[i - 1])
                  strings == LeavesOf(formatted_numbers.items[i])
              IN  /\ Len(strings) = Len(numbers)
                  /\ \A j \in DOMAIN numbers :
                       /\ IsPlainInteger(strings[j])
                       /\ ParseNumber(strings[j]) = Round(numbers[j], decimal_places)
    /\ pc = "returned" /\ args = IntegerScenario(FALSE, FALSE) =>
         result = "12300 ± 6800 (+1000 / -1200)"

\* C2 happens: the scenario returns, from the branch without decimals
C2_Witness ==
    /\ pc = "returned"
    /\ args = IntegerScenario(FALSE, FALSE)
    /\ ~DecimalsBranch
    /\ decimal_places = -2

\* the wrapping of one rendered error, row by row of the table of templates:
\* what precedes the (upper) number, what separates upper from lower, what
\* follows
TemplateTable ==
    << [abbreviate |-> TRUE,  latex |-> TRUE,  single |-> TRUE,
        before |-> "(",       between |-> "",     after |-> ")"],
       [abbreviate |-> TRUE,  latex |-> TRUE,  single |-> FALSE,
        before |-> "({}^{",   between |-> "}_{",  after |-> "})"],
       [abbreviate |-> TRUE,  latex |-> FALSE, single |-> TRUE,
        before |-> "(",       between |-> "",     after |-> ")"],
       [abbreviate |-> TRUE,  latex |-> FALSE, single |-> FALSE,
        before |-> "(+",      between |-> "/-",   after |-> ")"],
       [abbreviate |-> FALSE, latex |-> TRUE,  single |-> TRUE,
        before |-> " \\pm ",  between |-> "",     after |-> ""],
       [abbreviate |-> FALSE, latex |-> TRUE,  single |-> FALSE,
        before |-> " {}^{+",  between |-> "}_{-", after |-> "}"],
       [abbreviate |-> FALSE, latex |-> FALSE, single |-> TRUE,
        before |-> " ± ",     between |-> "",     after |-> ""],
       [abbreviate |-> FALSE, latex |-> FALSE, single |-> FALSE,
        before |-> " (+",     between |-> " / -", after |-> ")"] >>

TemplateFor(abbreviate, latex, single) ==
    LET row == CHOOSE i \in DOMAIN TemplateTable :
                 /\ TemplateTable[i].abbreviate = abbreviate
                 /\ TemplateTable[i].latex = latex
                 /\ TemplateTable[i].single = single
    IN  TemplateTable[row]

\* a rendered error wrapped by the template of its row
Wrapped(abbreviate, latex, error) ==
    LET strings  == LeavesOf(error)
        template == TemplateFor(abbreviate, latex, error.type = "str")
    IN  IF error.type = "str"
        THEN template.before \o strings[1] \o template.after
        ELSE template.before \o strings[1] \o template.between \o strings[2]
             \o template.after

\* the central value followed by the wrapped errors numbers[i..], in order
RECURSIVE WrappedFrom(_, _, _, _)
WrappedFrom(numbers, i, abbreviate, latex) ==
    IF i > Len(numbers) THEN ""
    ELSE Wrapped(abbreviate, latex, numbers[i])
         \o WrappedFrom(numbers, i + 1, abbreviate, latex)

Body ==
    Item(formatted_numbers.items[1])
    \o WrappedFrom(formatted_numbers.items, 2, args.abbreviate, args.latex)

\* C3: with abbreviate and latex an asymmetric error (upper, lower) is printed
\* with its signs, ({}^{+upper}_{-lower}): format(12345, 6789, (1011, 1213),
\* abbreviate=True, latex=True) returns "12300(6800)({}^{+1000}_{-1200})".
C3_SignedAbbreviatedLatexPair ==
    pc = "returned" /\ args = IntegerScenario(TRUE, TRUE) =>
        result = "12300(6800)({}^{+1000}_{-1200})"

ExponentSuffix ==
    IF args.latex THEN " \\times 10^{" \o ToString(exponent) \o "}"
    ELSE "e" \o ToString(exponent)

\* C5: a nonzero exponent is appended last, as " \times 10^{exponent}" (latex)
\* or "e{exponent}" (plain), after the value and errors, which stand in one
\* pair of parentheses exactly when abbreviate is false; with exponent 0,
\* also under exponential=True, the string has neither suffix nor parentheses
\* around it.
C5_ExponentSuffix ==
    pc = "returned" =>
        result = IF exponent = 0 THEN Body
                 ELSE IF args.abbreviate THEN Body \o ExponentSuffix
                 ELSE "(" \o Body \o ")" \o ExponentSuffix

\* C5 happens: an unabbreviated call returns with a negative exponent
C5_Witness ==
    /\ pc = "returned"
    /\ exponent < 0
    /\ ~args.abbreviate
    /\ Len(formatted_numbers.items) > 1

\* C6: a length_control that is neither "smallest" nor "central" makes the
\* call fail, whatever the value, errors and flags: such a call never gets a
\* controlling value and never returns a string, and a call that does not
\* raise earlier ends with the error of _get_length_value; "smallest" and
\* "central" never raise that error.
C6_InvalidLengthControl ==
    LET valid == args.length_control \in {"smallest", "central"}
    IN  /\ ~valid => pc \in {"called", "integrated", "normalized", "raised"}
        /\ ~valid /\ pc = "raised" =>
             raised \in {LengthControlError, PyerrorsError, EmptyMaxError}
        /\ raised = LengthControlError => ~valid /\ pc = "raised"

\* C6 happens: a call with errors and an unknown length_control has raised
C6_Witness ==
    /\ pc = "raised"
    /\ raised = LengthControlError
    /\ args.length_control = "largest"
    /\ args.errors # <<>>

\* C7: a value with the capability {value, dvalue} whose dvalue is zero makes
\* the call raise ValueError, with every error list and every option; with a
\* nonzero dvalue that error is never raised.
C7_ZeroDvalueRaises ==
    LET not_computed == args.value.type = "Obs" /\ IsZero(args.value.uncertainty)
    IN  /\ not_computed => pc \in {"called", "raised"}
        /\ not_computed /\ pc = "raised" => raised = PyerrorsError
        /\ raised = PyerrorsError => not_computed /\ pc = "raised"

\* C7 happens: the call raised for an Obs with dvalue 0, errors and options
\* given
C7_Witness ==
    /\ pc = "raised"
    /\ raised = PyerrorsError
    /\ Len(args.errors) = 2
    /\ args.exponential
    /\ args.length_control = "central"

\* the errors a call has to print: the built-in uncertainty of the value, if
\* it has one, then the explicit errors
ExpectedErrors ==
    IF args.value.type \in {"UFloat", "Obs"}
    THEN <<Leaf(args.value.uncertainty)>> \o args.errors
    ELSE args.errors

\* the call has passed _normalize_integrated_errors
Integrated ==
    pc \in {"integrated", "normalized", "length", "indices", "formatted", "returned"}

\* what follows the last error in the returned string
Closing ==
    IF exponent = 0 THEN ""
    ELSE (IF args.abbreviate THEN "" ELSE ")") \o ExponentSuffix

\* the wrapped errors numbers[i..] stand in result from position pos on, one
\* after the other, and only the closing follows them
RECURSIVE InOrderFrom(_, _, _)
InOrderFrom(numbers, i, pos) ==
    IF i > Len(numbers) THEN SubSeq(result, pos, Len(result)) = Closing
    ELSE LET piece == Wrapped(args.abbreviate, args.latex, numbers[i])
         IN  /\ SubSeq(result, pos, pos + Len(piece) - 1) = piece
             /\ InOrderFrom(numbers, i + 1, pos + Len(piece))

\* C8: a built-in uncertainty of the value becomes the first error and the
\* bare number the central value; the errors are printed in the order given
\* (built-in uncertainty first), each one once: the i-th rendered error has
\* the shape of the i-th error and reads back as it, and the rendered errors
\* follow the central value in the returned string in that order.
C8_ErrorsInOrder ==
    /\ pc = "integrated" =>
         /\ normalised_value = args.value.number
         /\ normalised_errors.items = ExpectedErrors
    /\ Integrated =>
         /\ MulPow10(normalised_value, exponent) = args.value.number
         /\ Len(normalised_errors.items) = Len(ExpectedErrors)
         /\ \A i \in DOMAIN ExpectedErrors :
              LET given  == LeavesOf(ExpectedErrors[i])
                  scaled == LeavesOf(normalised_errors.items[i])
              IN  /\ Len(scaled) = Len(given)
                  /\ \A j \in DOMAIN given :
                       MulPow10(scaled[j], exponent) = given[j]
    /\ Rendered =>
         /\ Len(formatted_numbers.items) = 1 + Len(ExpectedErrors)
         /\ \A i \in DOMAIN ExpectedErrors :
              LET given   == LeavesOf(ExpectedErrors[i])
                  strings == LeavesOf(formatted_numbers.items[i + 1])
              IN  /\ Len(strings) = Len(given)
                  /\ \A j \in DOMAIN given :
                       IsRoundingAt(ReadBack(strings[j]),
                                    DivPow10(given[j], exponent), decimal_places)
    /\ pc = "returned" =>
         LET central == Item(formatted_numbers.items[1])
             first   == IF exponent # 0 /\ ~args.abbreviate THEN 2 ELSE 1
         IN  /\ SubSeq(result, first, first + Len(central) - 1) = central
             /\ InOrderFrom(formatted_numbers.items, 2, first + Len(central))

\* C8 happens: a UFloat formatted with two different explicit errors
C8_Witness ==
    /\ pc = "returned"
    /\ args.value.type = "UFloat"
    /\ Len(args.errors) = 2
    /\ args.errors[1].type = "tuple"
    /\ args.errors[2].type = "float"
    /\ ~IsZero(Item(args.errors[2]))

\* C9: for a nonzero value _normalize returns value', errors' and exponent
\* with value' * 10^exponent = value, 1 <= |value'| < 10, and every error
\* leaf (scalars, both components of pairs) divided by the same 10^exponent.
\* (Products and quotients by powers of ten are taken as exact.)
C9_NormalizeRoundTrip ==
    pc = "normalized" /\ args.exponential /\ ~IsZero(args.value.number) =>
        /\ MulPow10(normalised_value, exponent) = args.value.number
        /\ ~Less(AbsNum(normalised_value), Num(1, 0))
        /\ Less(AbsNum(normalised_value), Num(10, 0))
        /\ Len(normalised_errors.items) = Len(ExpectedErrors)
        /\ \A i \in DOMAIN ExpectedErrors :
             LET given  == LeavesOf(ExpectedErrors[i])
                 scaled == LeavesOf(normalised_errors.items[i])
             IN  /\ Len(scaled) = Len(given)
                 /\ \A j \in DOMAIN given :
                      scaled[j] = DivPow10(given[j], exponent)

\* the call format_multiple_errors(1.0, 0.0999, significant_figures=2,
\* abbreviate=True)
RoundingScenario ==
    [value               |-> Float(Num(1, 0)),
     errors              |-> <<Leaf(Num(999, -4))>>,
     length_control      |-> "smallest",
     significant_figures |-> 2,
     abbreviate          |-> TRUE,
     exponential         |-> FALSE,
     latex               |-> FALSE]

\* C10: when rounding the controlling value to significant_figures carries it
\* over a power of ten, decimal_places is that of the carried value:
\* format_multiple_errors(1.0, 0.0999, significant_figures=2, abbreviate=True)
\* returns "1.00(10)".
C10_PromotedRounding ==
    /\ pc \in {"indices", "formatted", "returned"} =>
         LET naive    == args.significant_figures - _first_digit(length_value) - 1
             promoted == Round(length_value, naive)
         IN  decimal_places =
               args.significant_figures - _first_digit(promoted) - 1
    /\ pc = "returned" /\ args = RoundingScenario => result = "1.00(10)"

\* C10 happens: the scenario returns, its 0.0999 carried to 0.10
C10_Witness ==
    /\ pc = "returned"
    /\ args = RoundingScenario
    /\ first_digit_index = -1
    /\ decimal_places = 2
    /\ _first_digit(length_value) = -2

\* the digits of s from its first nonzero digit on
RECURSIVE FiguresFrom(_, _)
FiguresFrom(s, started) ==
    IF s = "" THEN 0
    ELSE IF ~IsDigit(Head(s)) THEN FiguresFrom(Tail(s), started)
    ELSE IF ~started /\ Head(s) = "0" THEN FiguresFrom(Tail(s), FALSE)
    ELSE 1 + FiguresFrom(Tail(s), TRUE)

\* the significant figures a rendered leaf shows: its digits from the first
\* nonzero one down to the place it was rounded at (the zeros an integer
\* carries below that place are not significant)
SignificantFigures(s) ==
    LET figures == FiguresFrom(s, FALSE)
                   + (IF decimal_places < 0 THEN decimal_places ELSE 0)
    IN  IF figures < 0 THEN 0 ELSE figures

\* C11: with length_control "smallest" the smallest uncertainty is printed
\* with significant_figures significant figures, and with either
\* length_control no other printed number, central value or error, shows
\* fewer than significant_figures significant figures (a number that is zero
\* before any rounding apart).
C11_SignificantFigures ==
    pc = "returned" =>
        LET smallest == _get_smallest(normalised_errors)
        IN  /\ ~IsZero(normalised_value) =>
                 SignificantFigures(Item(formatted_numbers.items[1]))
                   >= args.significant_figures
            /\ \A i \in DOMAIN normalised_errors.items :
                 LET numbers == LeavesOf(normalised_errors.items[i])
                     strings == LeavesOf(formatted_numbers.items[i + 1])
                 IN  \A j \in DOMAIN numbers :
                       /\ /\ args.length_control = "smallest"
                          /\ smallest = <<numbers[j]>>
                          => SignificantFigures(strings[j]) = args.significant_figures
                       /\ ~IsZero(numbers[j]) =>
                            SignificantFigures(strings[j]) >= args.significant_figures

\* the number an abbreviated error stands for: digits count units of
\* 10^-decimal_places, a string with a decimal point or from the branch
\* without decimals is the number itself
ReadAbbreviated(s) ==
    IF DecimalsBranch /\ ~HasPoint(s)
    THEN MulPow10(ParseNumber(s), -decimal_places)
    ELSE ParseNumber(s)

\* the central value and errors of the call as rendered with abbreviate (the
\* stages before the rendering do not read abbreviate)
RenderedWith(abbreviate) ==
    IF abbreviate = args.abbreviate THEN formatted_numbers
    ELSE FormattedNumbers(normalised_value, normalised_errors,
                          first_digit_index, decimal_places,
                          args.significant_figures, abbreviate,
                          args.exponential).value

\* C12: for the same value, errors, length_control, significant_figures,
\* exponential and latex, the renderings with abbreviate=True and with
\* abbreviate=False stand for the same numbers: the central value strings are
\* identical and each abbreviated error, read as digits in units of
\* 10^-decimal_places (as a fixed-point number when it has a decimal point or
\* comes from the branch without decimals), equals the unabbreviated error.
C12_AbbreviationKeepsNumbers ==
    Rendered =>
        LET short == RenderedWith(TRUE).items
            long  == RenderedWith(FALSE).items
        IN  /\ Len(short) = Len(long)
            /\ Item(short[1]) = Item(long[1])
            /\ \A i \in 2..Len(long) :
                 /\ Len(LeavesOf(short[i])) = Len(LeavesOf(long[i]))
                 /\ \A j \in DOMAIN LeavesOf(long[i]) :
                      ReadAbbreviated(LeavesOf(short[i])[j])
                        = ParseNumber(LeavesOf(long[i])[j])

\* the call has its controlling value
HasLengthValue == pc \in {"length", "indices", "formatted", "returned"}

\* the components of the errors of the call that are not exactly zero
NonzeroComponents ==
    { number \in UNION { { LeavesOf(normalised_errors.items[i])[j] :
                             j \in DOMAIN LeavesOf(normalised_errors.items[i]) } :
                         i \in DOMAIN normalised_errors.items } :
        ~IsZero(number) }

\* C13: with length_control "smallest" the controlling value is the least of
\* the error components (scalar errors, both components of pairs) that are not
\* exactly zero; without errors, or with every component exactly zero,
\* _get_length_value raises nothing and the controlling value is the central
\* value.  With "central" it is the central value whatever the errors.
C13_ControllingValue ==
    /\ HasLengthValue /\ args.length_control = "central" =>
         length_value = normalised_value
    /\ HasLengthValue /\ args.length_control = "smallest" =>
         IF NonzeroComponents = {}
         THEN length_value = normalised_value
         ELSE /\ length_value \in NonzeroComponents
              /\ \A number \in NonzeroComponents : ~Less(number, length_value)
    /\ pc = "raised" /\ args.length_control \in {"smallest", "central"} =>
         raised \in {PyerrorsError, EmptyMaxError, FormatSpecError}

\* C13 happens: the smallest nonzero component is the upper one of a pair,
\* next to an error that is exactly zero
C13_Witness ==
    /\ pc = "length"
    /\ args.length_control = "smallest"
    /\ Len(normalised_errors.items) = 2
    /\ normalised_errors.items[1] = Leaf(Zero)
    /\ normalised_errors.items[2].type = "tuple"
    /\ length_value = LeavesOf(normalised_errors.items[2])[1]
    /\ length_value # normalised_value

\* what a column specification asks for: the value column, the errors, the
\* name of the result and the keywords it sets itself
SpecValue(spec) == IF spec.type = "ColumnSpec" THEN spec.value ELSE spec.items[1]

SpecErrors(spec) ==
    IF spec.type = "ColumnSpec" THEN spec.errors ELSE Tail(spec.items)

SpecName(spec) == IF spec.type = "ColumnSpec" THEN spec.name ELSE spec.items[1]

SpecKeywords(spec) ==
    IF spec.type = "ColumnSpec" THEN spec.fme_kwargs ELSE NoKeywords

\* the cells of row i of the errors named: the cell of a column, the tuple of
\* the cells of a tuple of columns
RowCells(frame, errors, i) ==
    [k \in DOMAIN errors |->
       IF errors[k].type = "tuple"
       THEN Tuple([n \in DOMAIN errors[k].items |->
                     Column(frame, errors[k].items[n]).data[i]])
       ELSE Column(frame, errors[k]).data[i]]

\* row i of value and errors formatted by format_multiple_errors
ExpectedCell(frame, value, errors, i, fme_kwargs) ==
    Str(FormatRow(Column(frame, value).data[i], RowCells(frame, errors, i),
                  fme_kwargs).value)

\* C14: format_dataframe_errors returns one column per column specification,
\* in the order given: a str gives the source column unchanged; a tuple, list
\* or ColumnSpec gives a column formatted row by row by
\* format_multiple_errors, named by the name of the specification (the value
\* column by default), with the keywords of the ColumnSpec before those of
\* the call; a specification of any other type raises TypeError.
C14_DataFrameColumns ==
    call.function = "format_dataframe_errors" /\ output.returned =>
        LET columns == call.columns
            frame   == call.frame
        IN  IF \E k \in DOMAIN columns :
                 columns[k].type \notin {"str", "tuple", "list", "ColumnSpec"}
            THEN output.raised = ColumnTypeError
            ELSE /\ output.raised = ""
                 /\ output.value.type = "DataFrame"
                 /\ output.value.index = frame.index
                 /\ Len(output.value.columns) = Len(columns)
                 /\ \A k \in DOMAIN columns :
                      LET spec   == columns[k]
                          column == output.value.columns[k]
                          given  == [key \in DOMAIN call.fme_kwargs
                                             \cup DOMAIN SpecKeywords(spec) |->
                                       IF key \in DOMAIN SpecKeywords(spec)
                                       THEN SpecKeywords(spec)[key]
                                       ELSE call.fme_kwargs[key]]
                      IN  IF spec.type = "str"
                          THEN column = Column(frame, spec)
                          ELSE /\ column.name = SpecName(spec)
                               /\ column.index = frame.index
                               /\ DOMAIN column.data = DOMAIN frame.index
                               /\ \A i \in DOMAIN frame.index :
                                    column.data[i] =
                                      ExpectedCell(frame, SpecValue(spec),
                                                   SpecErrors(spec), i, given)

\* C14 happens: a frame of two rows formatted with a name and a ColumnSpec
\* that sets abbreviate against the keyword of the call
C14_Witness ==
    /\ call.function = "format_dataframe_errors"
    /\ output.returned
    /\ output.raised = ""
    /\ Len(call.frame.index) = 2
    /\ Len(call.columns) = 2
    /\ call.columns[1] = Str("a")
    /\ call.columns[2].type = "ColumnSpec"
    /\ call.columns[2].name = Str("d")
    /\ call.columns[2].fme_kwargs = [abbreviate |-> TRUE]
    /\ call.fme_kwargs = [abbreviate |-> FALSE]
    /\ output.value.columns[2].name = Str("d")

\* the name of a column given by name or as the Series itself
NameOf(column) == IF column.type = "Series" THEN column.name ELSE column

\* the name of the column of frame whose cells are the tuples (upper, lower)
\* of the cells of the two columns
TupleColumn(frame, upper, lower) ==
    LET k == CHOOSE n \in DOMAIN frame.columns :
                 \A i \in DOMAIN frame.index :
                    frame.columns[n].data[i] =
                      Tuple(<<Column(frame, upper).data[i],
                              Column(frame, lower).data[i]>>)
    IN  frame.columns[k].name

\* an error of the call as the name of one column of the frame
OneColumn(frame, error) ==
    IF error.type = "tuple"
    THEN TupleColumn(frame, NameOf(error.items[1]), NameOf(error.items[2]))
    ELSE NameOf(error)

\* the call names its value and every error
ProperColumnCall ==
    /\ call.function = "format_column_errors"
    /\ call.value # None
    /\ \A k \in DOMAIN call.errors : call.errors[k] # None

\* C15: format_column_errors gives the same column whether an asymmetric
\* error comes as a tuple of two columns (upper, lower) or as one column of
\* (upper, lower) tuples, and whether the columns are given by name with df
\* or as Series: in each case every row of the result is
\* format_multiple_errors of the value and the errors of that row, over the
\* index of the rows.
C15_ColumnForms ==
    ProperColumnCall /\ output.returned =>
        /\ output.raised = ""
        /\ output.value =
             Series(None, call.frame.index,
                    [i \in DOMAIN call.frame.index |->
                       ExpectedCell(call.frame, NameOf(call.value),
                                    [k \in DOMAIN call.errors |->
                                       OneColumn(call.frame, call.errors[k])],
                                    i, call.fme_kwargs)])

\* C15 happens: the columns given as Series, the asymmetric error as a tuple
\* of two of them, over rows that are not in the order of their labels
C15_Witness ==
    /\ ProperColumnCall
    /\ output.returned
    /\ output.raised = ""
    /\ call.df = None
    /\ call.value.type = "Series"
    /\ call.frame.index = <<1, 0>>
    /\ Len(call.errors) = 2
    /\ call.errors[1].type = "tuple"
    /\ call.errors[1].items[1].type = "Series"
    /\ output.value.index = <<1, 0>>

\* C16: _get_rounding_indices makes exactly two passes of (first_digit_index
\* = floor(log10|x|), decimal_places = significant_figures - first_digit_index
\* - 1, x := round(x, decimal_places)): it returns the pair of the second
\* pass, and a third pass on the twice-rounded value gives that same pair.
C16_TwoPassFixedPoint ==
    call.function = "_get_rounding_indices" /\ output.returned =>
        LET sf == call.significant_figures
            x0 == call.length_value
            f1 == _first_digit(x0)
            d1 == sf - f1 - 1
            x1 == Round(x0, d1)
            f2 == _first_digit(x1)
            d2 == sf - f2 - 1
            x2 == Round(x1, d2)
            f3 == _first_digit(x2)
            d3 == sf - f3 - 1
        IN  /\ output.raised = ""
            /\ output.value = <<f2, d2>>
            /\ <<f3, d3>> = output.value

\* C16 happens: 9.96 at two significant figures, whose first pass (0, 1)
\* rounds it to 10.0 and whose second pass gives (1, 0)
C16_Witness ==
    /\ call.function = "_get_rounding_indices"
    /\ call.length_value = Num(996, -2)
    /\ call.significant_figures = 2
    /\ output.returned
    /\ _first_digit(call.length_value) = 0
    /\ output.value = <<1, 0>>

\* s is written in fixed point: an optional "-", digits, and a "." followed
\* by digits if there is a fraction
IsFixedPoint(s) ==
    LET unsigned == IF s # "" /\ Head(s) = "-" THEN Tail(s) ELSE s
        nfrac    == FractionLength(unsigned)
        nwhole   == IF HasPoint(unsigned) THEN Len(unsigned) - nfrac - 1
                    ELSE Len(unsigned)
    IN  /\ nwhole >= 1
        /\ AllDigits(SubSeq(unsigned, 1, nwhole))
        /\ HasPoint(unsigned) => nfrac >= 1
        /\ AllDigits(SubSeq(unsigned, Len(unsigned) - nfrac + 1, Len(unsigned)))

\* C17: the full (unabbreviated) rendering of an error at decimal_places is
\* "0.0" (decimal_places > 0) or "0" (otherwise) if the error rounded to
\* decimal_places is exactly zero, and in every other case the rounded error
\* in fixed point with exactly decimal_places digits after the point, padded
\* with zeros, with its sign.
C17_FullRendering ==
    call.function = "_unabbreviated_single_error" /\ output.returned =>
        LET rounded_error == Round(call.error, call.decimal_places)
            s             == output.value
        IN  /\ output.raised = ""
            /\ IsZero(rounded_error) =>
                 s = IF call.decimal_places > 0 THEN "0.0" ELSE "0"
            /\ ~IsZero(rounded_error) =>
                 /\ IsFixedPoint(s)
                 /\ HasPoint(s) <=> call.decimal_places > 0
                 /\ FractionLength(s) = call.decimal_places
                 /\ ParseNumber(s) = rounded_error
                 /\ (Head(s) = "-") <=> call.error.m < 0

\* C17 happens: -2.5 at two decimal places comes out padded and signed
C17_Witness ==
    /\ call.function = "_unabbreviated_single_error"
    /\ call.error = Num(-25, -1)
    /\ call.decimal_places = 2
    /\ output.returned
    /\ output.value = "-2.50"

\* C18: the abbreviated rendering of an error at decimal_places is, for every
\* error with |error| >= 1 (positive or negative), the fixed-point string of
\* the full rendering, and for every error with |error| < 1 the integer
\* nearest to error * 10^decimal_places, without decimal point.
C18_AbbreviatedRendering ==
    call.function = "_abbreviated_single_error" /\ output.returned =>
        LET s == output.value
        IN  /\ output.raised = ""
            /\ ~LessAbs(call.error, Num(1, 0)) =>
                 s = _unabbreviated_single_error(call.error, call.decimal_places)
            /\ LessAbs(call.error, Num(1, 0)) =>
                 /\ IsPlainInteger(s)
                 /\ IsRoundingAt(ParseNumber(s),
                                 Num(call.error.m, call.error.e + call.decimal_places),
                                 0)

\* the scalar leaves of a nested structure, in order: LeavesFrom takes them
\* from the items at position i on
RECURSIVE LeavesFrom(_, _)
LeavesFrom(items, i) ==
    IF i > Len(items) THEN <<>>
    ELSE (IF IsContainer(items[i]) THEN LeavesFrom(items[i].items, 1)
          ELSE <<items[i]>>)
         \o LeavesFrom(items, i + 1)

\* b has the container types and the nesting of a at every level
RECURSIVE SameShape(_, _)
SameShape(a, b) ==
    IF IsContainer(a)
    THEN /\ b.type = a.type
         /\ Len(b.items) = Len(a.items)
         /\ \A i \in DOMAIN a.items : SameShape(a.items[i], b.items[i])
    ELSE ~IsContainer(b)

\* C19: _map_recursive applies f once to every scalar leaf, in order, and
\* returns a structure with the container type and nesting of its input at
\* every level: a list stays a list and a pair-tuple a tuple, at the top and
\* nested.
C19_MapKeepsContainers ==
    call.function = "_map_recursive" /\ output.returned =>
        LET given  == LeavesFrom(call.data.items, 1)
            mapped == LeavesFrom(output.value.items, 1)
        IN  /\ output.raised = ""
            /\ mapped = [i \in DOMAIN given |-> Apply(call.func, Item(given[i]))]
            /\ SameShape(call.data, output.value)

\* C20: _normalize with a central value of exactly zero takes as exponent the
\* first_digit_index of the largest flattened error component (0 if that
\* component is 0), returns the value 0 and every error leaf divided by
\* 10^exponent; with value zero and no error component the call raises and
\* returns nothing; with a nonzero value the errors have no part in the
\* exponent.
C20_NormalizeZero ==
    call.function = "_normalize" /\ output.returned =>
        LET components == LeavesFrom(call.errors.items, 1)
            scaled     == LeavesFrom(output.value.errors.items, 1)
        IN  /\ IsZero(call.value) /\ components = <<>> =>
                 output.raised # ""
            /\ IsZero(call.value) /\ components # <<>> =>
                 /\ output.raised = ""
                 /\ \E i \in DOMAIN components :
                      LET largest == Item(components[i])
                      IN  /\ \A j \in DOMAIN components :
                               ~Less(largest, Item(components[j]))
                          /\ output.value.exponent =
                               IF IsZero(largest) THEN 0 ELSE Magnitude(largest)
                 /\ IsZero(output.value.value)
                 /\ scaled = [i \in DOMAIN components |->
                                Leaf(DivPow10(Item(components[i]),
                                              output.value.exponent))]
            /\ ~IsZero(call.value) =>
                 /\ output.raised = ""
                 /\ output.value.exponent = Magnitude(call.value)
                 /\ \A errors \in NormalizeErrors :
                      _normalize(call.value, errors).exponent
                          = output.value.exponent

\* C20 happens: _normalize(0.0, [0.01, (0.123, 0.234), 0.49]) of
\* test_normalize_zero returns the exponent -1 of 0.49 and the errors times 10
C20_Witness ==
    /\ call.function = "_normalize"
    /\ IsZero(call.value)
    /\ call.errors = List(<<Leaf(Num(1, -2)), Pair(Num(123, -3), Num(234, -3)),
                            Leaf(Num(49, -2))>>)
    /\ output.returned
    /\ output.raised = ""
    /\ output.value.exponent = -1
    /\ LeavesFrom(output.value.errors.items, 1) =
         <<Leaf(Num(1, -1)), Leaf(Num(123, -2)), Leaf(Num(234, -2)),
           Leaf(Num(49, -1))>>

\* the call has a plain number for central value, at least one error and a
\* documented length_control
PlainCall ==
    /\ args.value.type = "float"
    /\ args.errors # <<>>
    /\ args.length_control \in {"smallest", "central"}

\* C21: whenever the call takes the branch that needs decimals
\* (first_digit_index + 1 < significant_figures, or exponential), the
\* decimal_places it formats the central value and the errors with is >= 0,
\* for a plain-number value, a non-empty error list, either length_control
\* and any significant_figures >= 1; so the call returns a string and raises
\* nothing.
C21_DecimalPlacesNotNegative ==
    PlainCall =>
        /\ pc = "indices" /\ DecimalsBranch => decimal_places >= 0
        /\ pc # "raised"

\* the number of characters of s before its decimal point
RECURSIVE WholeLength(_)
WholeLength(s) ==
    IF s = "" \/ Head(s) = "." THEN 0 ELSE 1 + WholeLength(Tail(s))

\* C22: with exponential=True and a nonzero central value, the central value
\* as the returned string shows it (rounded to decimal_places) has exactly one
\* digit before the decimal point, and that digit is 1 to 9: the printed
\* mantissa lies in [1, 10), whatever the value, the errors, length_control
\* and significant_figures.
C22_PrintedMantissa ==
    pc = "returned" /\ args.exponential /\ ~IsZero(args.value.number) =>
        LET s        == Item(formatted_numbers.items[1])
            unsigned == IF Head(s) = "-" THEN Tail(s) ELSE s
        IN  /\ WholeLength(unsigned) = 1
            /\ Head(unsigned) \in {"1", "2", "3", "4", "5", "6", "7", "8", "9"}

====
